---------------------------- MODULE Spec2Model ----------------------------
(***************************************************************************)
(* Model of pwm.c (Omega2 hardware PWM control).                           *)
(*                                                                         *)
(* One invocation of the program is a process p: pwm() computes the clock  *)
(* mode and the durations, pwm_raw() performs the register accesses, each  *)
(* through one devmem() call.  Every devmem() call is one atomic step, so  *)
(* two invocations interleave at the granularity of register accesses.     *)
(*                                                                         *)
(* Number encoding: TLC integers are 32-bit signed.  A uint32_t whose      *)
(* value is below 2^31 is the integer itself; inputs (frequency, initial   *)
(* register contents) are drawn below 2^31.  The int expression            *)
(* duration - 1 of pwm_raw() is kept as the int it is in C: a negative     *)
(* result stands for the uint32_t with the same bit pattern.               *)
(***************************************************************************)
EXTENDS Integers, Naturals, Sequences, FiniteSets, TLC

---------------------------------------------------------------------------
(* Register map, lines 23-33 *)
PWM_ENABLE == 268455936
PWM0_CON == 268455952
PWM0_HDURATION == 268455956
PWM0_LDURATION == 268455960
PWM0_GDURATION == 268455964
PWM0_SEND_DATA0 == 268455984
PWM0_SEND_DATA1 == 268455988
PWM0_WAVE_NUM == 268455992
PWM0_DATA_WIDTH == 268455996
PWM0_THRESH == 268456000
PWM0_SEND_WAVENUM == 268456004

(* Clock modes, lines 35-45 *)
CLKSEL_100KHZ == 0
CLKSEL_40MHZ == 8
CLKDIV_1 == 0
CLKDIV_2 == 1
CLKDIV_4 == 2
CLKDIV_8 == 3
CLKDIV_16 == 4
CLKDIV_32 == 5
CLKDIV_64 == 6
CLKDIV_128 == 7

(* 0xFFFF, the bound of the mode selection; 0x7000, the control bits;      *)
(* 0x55555555, the send-data pattern; 0x40, the block stride               *)
DurationLimit == 65535
CON_BITS == 28672
SEND_DATA_PATTERN == 1431655765
BLOCK_STRIDE == 64
FREQ_100KHZ == 100000
FREQ_40MHZ == 40000000
DutyMax == 100
ChannelMax == 3
DefaultDuty == 50

(* The value select_mode gives when no branch of the chain is taken        *)
NoMode == -1

OutOfRangeMsg == "Frequency out of range\n"

---------------------------------------------------------------------------
(* Bounds of the model *)

(* frequencies 0..MaxFreq are all tried, plus NotableFreqs *)
MaxFreq == 6

(* Frequencies at which the selected mode changes (the smallest frequency  *)
(* each fast divider accepts, and the one below it), the scenario          *)
(* frequency 1000, frequencies that give a period of 4, 2, 1 and 0 counts  *)
(* of the fast source, and the largest frequency the encoding holds.       *)
NotableFreqs ==
    {9, 10, 19, 20, 38, 39, 76, 77, 152, 153, 305, 306, 610, 611,
     1000, 10000000, 20000000, 40000000, 40000001, 2147483647}

Freqs == (0..MaxFreq) \cup NotableFreqs

Channels == 0..ChannelMax

(* Duty cycles: every multiple of 5 percent, and the values next to the    *)
(* ends and to the middle of the range                                     *)
Duties == {d \in 0..DutyMax : d % 5 = 0 \/ d \in {1, 33, 49, 51, 99}}

(* Initial contents of the enable register: every channel bit takes both   *)
(* values, and so does bit 4, which belongs to no channel.                 *)
InitEnables == {5, 26}

(* Initial contents of every other register *)
RegInit == 57005

(* Inputs of the two concurrent invocations *)
ConcFreqs == {0, 1000}
ConcDuties == {DefaultDuty}
ConcEnables == {0, 15}

---------------------------------------------------------------------------
(* Bit operations on naturals, as the C operators compute them *)

RECURSIVE BitAnd(_, _)
BitAnd(a, b) ==
    IF a = 0 \/ b = 0 THEN 0
    ELSE (a % 2) * (b % 2) + 2 * BitAnd(a \div 2, b \div 2)

RECURSIVE BitOr(_, _)
BitOr(a, b) ==
    IF a = 0 THEN b
    ELSE IF b = 0 THEN a
    ELSE (IF a % 2 = 1 \/ b % 2 = 1 THEN 1 ELSE 0) + 2 * BitOr(a \div 2, b \div 2)

(* a & ~m on 32 bits *)
RECURSIVE BitAndNot(_, _)
BitAndNot(a, m) ==
    IF a = 0 THEN 0
    ELSE (a % 2) * (1 - (m % 2)) + 2 * BitAndNot(a \div 2, m \div 2)

(* 1 << n *)
Shl1(n) == 2 ^ n

(* conversion to uint16_t *)
ToU16(x) == x % 65536

(* uint32_t multiplication, on 16-bit limbs *)
Mul32(a, b) ==
    LET lo == (a % 65536) * b
        hi == (((a \div 65536) * b) + (lo \div 65536)) % 65536
    IN  hi * 65536 + (lo % 65536)

---------------------------------------------------------------------------
(* The registers of one channel's block, and all the registers *)
BlockRegs ==
    {PWM0_CON, PWM0_HDURATION, PWM0_LDURATION, PWM0_GDURATION, PWM0_SEND_DATA0,
     PWM0_SEND_DATA1, PWM0_WAVE_NUM, PWM0_DATA_WIDTH, PWM0_THRESH,
     PWM0_SEND_WAVENUM}

Regs == {PWM_ENABLE} \cup {r + BLOCK_STRIDE * c : r \in BlockRegs, c \in Channels}

VARIABLES
    pc,          \* position of each invocation
    channel,     \* argument of pwm()
    freq,        \* argument of pwm()
    duty,        \* argument of pwm()
    mode,        \* local of pwm()
    base_freq,   \* local of pwm()
    duration,    \* local of pwm()
    duration_h,  \* local of pwm(), 32 bits
    duration_l,  \* local of pwm(), 32 bits
    raw_mode,    \* parameter mode of pwm_raw(), 16 bits
    raw_h,       \* parameter duration_h of pwm_raw(), 16 bits
    raw_l,       \* parameter duration_l of pwm_raw(), 16 bits
    enable,      \* local of pwm_raw()
    ret,         \* value returned by pwm(), the exit code
    stdout,      \* what the invocation printed
    log,         \* the devmem() calls of the invocation, in order
    mem,         \* the registers
    run,         \* 1 in the first run of the program, 2 in the second
    first        \* registers and result at the end of the first run

args == <<channel, freq, duty>>
pwmLocals == <<mode, base_freq, duration, duration_h, duration_l>>
rawParams == <<raw_mode, raw_h, raw_l>>
vars == <<pc, channel, freq, duty, mode, base_freq, duration, duration_h,
          duration_l, raw_mode, raw_h, raw_l, enable, ret, stdout, log, mem,
          run, first>>

(* the invocations: one alone, or two at the same time *)
SeqProcs == {1}
ConcProcs == {1, 2}

---------------------------------------------------------------------------
(* get_base_freq *)
RECURSIVE Halve(_, _)
Halve(r, n) == IF n = 0 THEN r ELSE Halve(r \div 2, n - 1)

(* get_base_freq with the loop run once too often (i <= instead of i <) *)
get_base_freq_offbyone(m) ==
    LET r == IF BitAnd(m, CLKSEL_40MHZ) = 0 THEN FREQ_100KHZ ELSE FREQ_40MHZ
    IN  Halve(r, BitAnd(m, 7) + 1)

get_base_freq(m) ==
    LET r == IF BitAnd(m, CLKSEL_40MHZ) = 0 THEN FREQ_100KHZ ELSE FREQ_40MHZ
    IN  Halve(r, BitAnd(m, 7))

(* the bound written 0xFF, and written 0xFFFFF *)
Fits_narrow(m, f) == get_base_freq(m) \div f < 255
Fits_wide(m, f) == get_base_freq(m) \div f < 1048575

(* the condition of each branch of the chain in pwm() *)
Fits(m, f) == get_base_freq(m) \div f < DurationLimit

(* the if / else-if chain of pwm() *)
select_mode(f) ==
    IF Fits(BitOr(CLKSEL_40MHZ, CLKDIV_1), f) THEN BitOr(CLKSEL_40MHZ, CLKDIV_1)
    ELSE IF Fits(BitOr(CLKSEL_40MHZ, CLKDIV_2), f) THEN BitOr(CLKSEL_40MHZ, CLKDIV_2)
    ELSE IF Fits(BitOr(CLKSEL_40MHZ, CLKDIV_4), f) THEN BitOr(CLKSEL_40MHZ, CLKDIV_4)
    ELSE IF Fits(BitOr(CLKSEL_40MHZ, CLKDIV_8), f) THEN BitOr(CLKSEL_40MHZ, CLKDIV_8)
    ELSE IF Fits(BitOr(CLKSEL_40MHZ, CLKDIV_16), f) THEN BitOr(CLKSEL_40MHZ, CLKDIV_16)
    ELSE IF Fits(BitOr(CLKSEL_40MHZ, CLKDIV_32), f) THEN BitOr(CLKSEL_40MHZ, CLKDIV_32)
    ELSE IF Fits(BitOr(CLKSEL_40MHZ, CLKDIV_64), f) THEN BitOr(CLKSEL_40MHZ, CLKDIV_64)
    ELSE IF Fits(BitOr(CLKSEL_40MHZ, CLKDIV_128), f) THEN BitOr(CLKSEL_40MHZ, CLKDIV_128)
    ELSE IF Fits(BitOr(CLKSEL_100KHZ, CLKDIV_1), f) THEN BitOr(CLKSEL_100KHZ, CLKDIV_1)
    ELSE IF Fits(BitOr(CLKSEL_100KHZ, CLKDIV_2), f) THEN BitOr(CLKSEL_100KHZ, CLKDIV_2)
    ELSE IF Fits(BitOr(CLKSEL_100KHZ, CLKDIV_4), f) THEN BitOr(CLKSEL_100KHZ, CLKDIV_4)
    ELSE IF Fits(BitOr(CLKSEL_100KHZ, CLKDIV_8), f) THEN BitOr(CLKSEL_100KHZ, CLKDIV_8)
    ELSE IF Fits(BitOr(CLKSEL_100KHZ, CLKDIV_16), f) THEN BitOr(CLKSEL_100KHZ, CLKDIV_16)
    ELSE IF Fits(BitOr(CLKSEL_100KHZ, CLKDIV_32), f) THEN BitOr(CLKSEL_100KHZ, CLKDIV_32)
    ELSE IF Fits(BitOr(CLKSEL_100KHZ, CLKDIV_64), f) THEN BitOr(CLKSEL_100KHZ, CLKDIV_64)
    ELSE IF Fits(BitOr(CLKSEL_100KHZ, CLKDIV_128), f) THEN BitOr(CLKSEL_100KHZ, CLKDIV_128)
    ELSE NoMode

(* duration, duration_h and duration_l of pwm() *)
Duration(base, f) == base \div f
DurationH(d, dt) == Mul32(d, dt) \div 100
DurationL(d, dt) == Mul32(d, 100 - dt) \div 100

---------------------------------------------------------------------------
(* pwm_raw *)

(* the disable step clearing the next channel's bit, and toggling the bit *)
ClearBit_shifted(e, c) == BitAndNot(e, Shl1(c + 1))
ClearBit_toggle(e, c) ==
    IF (e \div Shl1(c)) % 2 = 1 THEN e - Shl1(c) ELSE e + Shl1(c)

(* enable &= ~((uint32_t)(1<<channel)) *)
ClearBit(e, c) == BitAndNot(e, Shl1(c))

(* enable |= 1<<channel *)
SetBit(e, c) == BitOr(e, Shl1(c))

(* the early return taken only when both durations are 0 *)
NeedDisable_both(h, l) == h = 0 /\ l = 0

(* if (!duration_h || !duration_l) return; *)
NeedDisable(h, l) == h = 0 \/ l = 0

(* the block stride taken as one register *)
RegOffset_word(c) == 4 * c

(* reg_offset = 0x40 * channel *)
RegOffset(c) == BLOCK_STRIDE * c

(* the values pwm_raw() writes *)
ConValue(m) == BitOr(CON_BITS, m)
HDurationValue(h) == h - 1
LDurationValue(l) == l - 1
GDurationValue_nominus(h, l) == (h + l) \div 2
GDurationValue(h, l) == (h + l) \div 2 - 1

(* devmem(target, 4, 1, value): the registers after the write *)
DevmemWrite(m, target, value) == [m EXCEPT ![target] = value]

(* devmem(target, 4, 0, 0): the value read *)
DevmemRead(m, target) == m[target]

Access(target, write, value) == [addr |-> target, write |-> write, value |-> value]

---------------------------------------------------------------------------
Fresh(S) ==
    /\ pc = [p \in S |-> "pwm"]
    /\ mode = [p \in S |-> 0]
    /\ base_freq = [p \in S |-> 0]
    /\ duration = [p \in S |-> 0]
    /\ duration_h = [p \in S |-> 0]
    /\ duration_l = [p \in S |-> 0]
    /\ raw_mode = [p \in S |-> 0]
    /\ raw_h = [p \in S |-> 0]
    /\ raw_l = [p \in S |-> 0]
    /\ enable = [p \in S |-> 0]
    /\ ret = [p \in S |-> 0]
    /\ stdout = [p \in S |-> ""]
    /\ log = [p \in S |-> <<>>]
    /\ run = 1
    /\ first = [mem |-> << >>, ret |-> 0, stdout |-> ""]

InitMem(e) == [a \in Regs |-> IF a = PWM_ENABLE THEN e ELSE RegInit]

(* one invocation, with arguments main() accepts *)
Init ==
    /\ Fresh(SeqProcs)
    /\ channel \in [SeqProcs -> Channels]
    /\ freq \in [SeqProcs -> Freqs]
    /\ duty \in [SeqProcs -> Duties]
    /\ \E e \in InitEnables : mem = InitMem(e)

(* two invocations running at the same time *)
InitConc ==
    /\ Fresh(ConcProcs)
    /\ channel \in [ConcProcs -> Channels]
    /\ freq \in [ConcProcs -> ConcFreqs]
    /\ duty \in [ConcProcs -> ConcDuties]
    /\ \E e \in ConcEnables : mem = InitMem(e)

---------------------------------------------------------------------------
(* pwm(), up to the first register access of pwm_raw() *)
pwm(p) ==
    /\ pc[p] = "pwm"
    /\ IF freq[p] = 0
       THEN /\ raw_mode' = [raw_mode EXCEPT ![p] = 0]
            /\ raw_h' = [raw_h EXCEPT ![p] = 0]
            /\ raw_l' = [raw_l EXCEPT ![p] = 0]
            /\ pc' = [pc EXCEPT ![p] = "read_enable"]
            /\ UNCHANGED <<pwmLocals, ret, stdout>>
       ELSE LET m == select_mode(freq[p])
                b == get_base_freq(m)
                d == Duration(b, freq[p])
                h == DurationH(d, duty[p])
                l == DurationL(d, duty[p])
            IN  IF m = NoMode
                THEN /\ stdout' = [stdout EXCEPT ![p] = OutOfRangeMsg]
                     /\ ret' = [ret EXCEPT ![p] = 1]
                     /\ pc' = [pc EXCEPT ![p] = "done"]
                     /\ UNCHANGED <<pwmLocals, rawParams>>
                ELSE /\ mode' = [mode EXCEPT ![p] = m]
                     /\ base_freq' = [base_freq EXCEPT ![p] = b]
                     /\ duration' = [duration EXCEPT ![p] = d]
                     /\ duration_h' = [duration_h EXCEPT ![p] = h]
                     /\ duration_l' = [duration_l EXCEPT ![p] = l]
                     /\ raw_mode' = [raw_mode EXCEPT ![p] = ToU16(m)]
                     /\ raw_h' = [raw_h EXCEPT ![p] = ToU16(h)]
                     /\ raw_l' = [raw_l EXCEPT ![p] = ToU16(l)]
                     /\ pc' = [pc EXCEPT ![p] = "read_enable"]
                     /\ UNCHANGED <<ret, stdout>>
    /\ UNCHANGED <<args, enable, log, mem, run, first>>

(* uint32_t enable = devmem(PWM_ENABLE, 4, 0, 0); *)
read_enable(p) ==
    /\ pc[p] = "read_enable"
    /\ enable' = [enable EXCEPT ![p] = DevmemRead(mem, PWM_ENABLE)]
    /\ log' = [log EXCEPT ![p] = Append(@, Access(PWM_ENABLE, 0, DevmemRead(mem, PWM_ENABLE)))]
    /\ pc' = [pc EXCEPT ![p] = "write_disable"]
    /\ UNCHANGED <<args, pwmLocals, rawParams, ret, stdout, mem, run, first>>

(* enable &= ~(1<<channel); devmem(PWM_ENABLE, 4, 1, enable); and the      *)
(* early return of pwm_raw(), after which pwm() returns 0                  *)
write_disable(p) ==
    /\ pc[p] = "write_disable"
    /\ LET e == ClearBit(enable[p], channel[p])
       IN  /\ enable' = [enable EXCEPT ![p] = e]
           /\ mem' = DevmemWrite(mem, PWM_ENABLE, e)
           /\ log' = [log EXCEPT ![p] = Append(@, Access(PWM_ENABLE, 1, e))]
    /\ IF NeedDisable(raw_h[p], raw_l[p])
       THEN /\ pc' = [pc EXCEPT ![p] = "done"]
            /\ ret' = [ret EXCEPT ![p] = 0]
       ELSE /\ pc' = [pc EXCEPT ![p] = "write_con"]
            /\ UNCHANGED ret
    /\ UNCHANGED <<args, pwmLocals, rawParams, stdout, run, first>>

(* one write to the channel's block *)
BlockWrite(p, here, reg, value, next) ==
    /\ pc[p] = here
    /\ mem' = DevmemWrite(mem, reg + RegOffset(channel[p]), value)
    /\ log' = [log EXCEPT ![p] = Append(@, Access(reg + RegOffset(channel[p]), 1, value))]
    /\ pc' = [pc EXCEPT ![p] = next]
    /\ UNCHANGED <<args, pwmLocals, rawParams, enable, ret, stdout, run, first>>

write_con(p) ==
    BlockWrite(p, "write_con", PWM0_CON, ConValue(raw_mode[p]), "write_hduration")

write_hduration(p) ==
    BlockWrite(p, "write_hduration", PWM0_HDURATION, HDurationValue(raw_h[p]), "write_lduration")

write_lduration(p) ==
    BlockWrite(p, "write_lduration", PWM0_LDURATION, LDurationValue(raw_l[p]), "write_gduration")

write_gduration(p) ==
    BlockWrite(p, "write_gduration", PWM0_GDURATION, GDurationValue(raw_h[p], raw_l[p]), "write_send_data0")

write_send_data0(p) ==
    BlockWrite(p, "write_send_data0", PWM0_SEND_DATA0, SEND_DATA_PATTERN, "write_send_data1")

write_send_data1(p) ==
    BlockWrite(p, "write_send_data1", PWM0_SEND_DATA1, SEND_DATA_PATTERN, "write_wave_num")

write_wave_num(p) ==
    BlockWrite(p, "write_wave_num", PWM0_WAVE_NUM, 0, "write_enable")

(* enable |= 1<<channel; devmem(PWM_ENABLE, 4, 1, enable); pwm() returns 0 *)
write_enable(p) ==
    /\ pc[p] = "write_enable"
    /\ LET e == SetBit(enable[p], channel[p])
       IN  /\ enable' = [enable EXCEPT ![p] = e]
           /\ mem' = DevmemWrite(mem, PWM_ENABLE, e)
           /\ log' = [log EXCEPT ![p] = Append(@, Access(PWM_ENABLE, 1, e))]
    /\ pc' = [pc EXCEPT ![p] = "done"]
    /\ ret' = [ret EXCEPT ![p] = 0]
    /\ UNCHANGED <<args, pwmLocals, rawParams, stdout, run, first>>

(* the program is run a second time with the same arguments *)
Rerun(p) ==
    /\ pc[p] = "done"
    /\ run = 1
    /\ run' = 2
    /\ first' = [mem |-> mem, ret |-> ret[p], stdout |-> stdout[p]]
    /\ pc' = [pc EXCEPT ![p] = "pwm"]
    /\ mode' = [mode EXCEPT ![p] = 0]
    /\ base_freq' = [base_freq EXCEPT ![p] = 0]
    /\ duration' = [duration EXCEPT ![p] = 0]
    /\ duration_h' = [duration_h EXCEPT ![p] = 0]
    /\ duration_l' = [duration_l EXCEPT ![p] = 0]
    /\ raw_mode' = [raw_mode EXCEPT ![p] = 0]
    /\ raw_h' = [raw_h EXCEPT ![p] = 0]
    /\ raw_l' = [raw_l EXCEPT ![p] = 0]
    /\ enable' = [enable EXCEPT ![p] = 0]
    /\ ret' = [ret EXCEPT ![p] = 0]
    /\ stdout' = [stdout EXCEPT ![p] = ""]
    /\ log' = [log EXCEPT ![p] = <<>>]
    /\ UNCHANGED <<args, mem>>

Next ==
    \/ pwm(1)
    \/ read_enable(1)
    \/ write_disable(1)
    \/ write_con(1)
    \/ write_hduration(1)
    \/ write_lduration(1)
    \/ write_gduration(1)
    \/ write_send_data0(1)
    \/ write_send_data1(1)
    \/ write_wave_num(1)
    \/ write_enable(1)
    \/ Rerun(1)

Spec == Init /\ [][Next]_vars

NextConc ==
    \/ \E p \in ConcProcs : pwm(p)
    \/ \E p \in ConcProcs : read_enable(p)
    \/ \E p \in ConcProcs : write_disable(p)
    \/ \E p \in ConcProcs : write_con(p)
    \/ \E p \in ConcProcs : write_hduration(p)
    \/ \E p \in ConcProcs : write_lduration(p)
    \/ \E p \in ConcProcs : write_gduration(p)
    \/ \E p \in ConcProcs : write_send_data0(p)
    \/ \E p \in ConcProcs : write_send_data1(p)
    \/ \E p \in ConcProcs : write_wave_num(p)
    \/ \E p \in ConcProcs : write_enable(p)

SpecConc == InitConc /\ [][NextConc]_vars

---------------------------------------------------------------------------
(* Vocabulary of the properties *)

AllProcs == DOMAIN pc

(* bit c of v *)
Bit(v, c) == (v \div (2 ^ c)) % 2

(* v with bit c taken out *)
OtherBits(v, c) == v - Bit(v, c) * (2 ^ c)

(* The 16 candidate modes in the order of preference: fast source with     *)
(* divider 1, 2, ..., 128, then slow source with divider 1, 2, ..., 128    *)
CandidateOrder == <<8, 9, 10, 11, 12, 13, 14, 15, 0, 1, 2, 3, 4, 5, 6, 7>>

(* base frequency of the i-th candidate: the source frequency halved       *)
(* divider-shift times                                                     *)
CandidateBase(i) ==
    (IF i <= 8 THEN 40000000 ELSE 100000) \div (2 ^ ((i - 1) % 8))

CandidateFits(i, f) == CandidateBase(i) \div f < 65535

(* base frequency of a mode *)
ModeBase(m) == (IF m >= 8 THEN 40000000 ELSE 100000) \div (2 ^ (m % 8))

(* period, high and low of an invocation that selected a mode *)
Period(p) == ModeBase(mode[p]) \div freq[p]
High(p) == (Period(p) * duty[p]) \div 100
Low(p) == (Period(p) * (100 - duty[p])) \div 100

(* pwm() has run and selected a mode *)
Selected(p) == pc[p] # "pwm" /\ freq[p] # 0 /\ ret[p] # 1

(* the addresses of channel c's registers, and those pwm_raw() writes *)
BlockOf(c) == {r + 64 * c : r \in BlockRegs}
WrittenOf(c) ==
    {r + 64 * c : r \in {PWM0_CON, PWM0_HDURATION, PWM0_LDURATION, PWM0_GDURATION,
                         PWM0_SEND_DATA0, PWM0_SEND_DATA1, PWM0_WAVE_NUM}}

Writes(p) == {i \in 1..Len(log[p]) : log[p][i].write = 1}
IsEnableWrite(p, i) == log[p][i].write = 1 /\ log[p][i].addr = PWM_ENABLE
IsBlockWrite(p, i) == log[p][i].write = 1 /\ log[p][i].addr \in WrittenOf(channel[p])
IsClearWrite(p, i) == IsEnableWrite(p, i) /\ Bit(log[p][i].value, channel[p]) = 0
IsSetWrite(p, i) == IsEnableWrite(p, i) /\ Bit(log[p][i].value, channel[p]) = 1

(* the invocation is past the early return of pwm_raw(): it enables *)
Enabling(p) ==
    pc[p] \in {"write_con", "write_hduration", "write_lduration", "write_gduration",
               "write_send_data0", "write_send_data1", "write_wave_num",
               "write_enable"}
    \/ (pc[p] = "done" /\ Len(log[p]) > 2)

(* the invocation asks for the channel to be switched off *)
Disabling(p) ==
    \/ freq[p] = 0
    \/ (Selected(p) /\ (duration_h[p] = 0 \/ duration_l[p] = 0))

---------------------------------------------------------------------------
(* C1: for every positive frequency for which some candidate mode          *)
(* satisfies base/f < 0xFFFF, the mode pwm() selects is the first such     *)
(* candidate in the order of preference: it satisfies the bound and no     *)
(* earlier candidate does.                                                 *)
C1_FirstFittingMode ==
    \A p \in AllProcs :
        (pc[p] # "pwm" /\ freq[p] > 0 /\ \E i \in 1..16 : CandidateFits(i, freq[p]))
        => \E i \in 1..16 :
              /\ ret[p] = 0
              /\ mode[p] = CandidateOrder[i]
              /\ raw_mode[p] = CandidateOrder[i]
              /\ CandidateFits(i, freq[p])
              /\ \A j \in 1..(i - 1) : ~CandidateFits(j, freq[p])

(* a frequency too low for every divider of the fast source falls back to  *)
(* the slow source / 1, and a frequency between two thresholds takes       *)
(* fast / 2                                                                *)
C1_Witness ==
    /\ pc[1] = "done"
    /\ \/ (freq[1] = 4 /\ mode[1] = 0 /\ ~CandidateFits(8, 4))
       \/ (freq[1] = 306 /\ mode[1] = 9 /\ ~CandidateFits(1, 306))

---------------------------------------------------------------------------
(* C2: with period = base/f, high = period*duty/100 and                    *)
(* low = period*(100-duty)/100 (integer divisions), an invocation with     *)
(* high and low nonzero writes high-1, low-1 and (high+low)/2-1 to the     *)
(* channel's high-, low- and guard-duration registers; at duty 0 high is   *)
(* 0 and at duty 100 low is 0.                                             *)
C2_DurationRegisters ==
    \A p \in AllProcs :
        Selected(p) =>
            /\ duration_h[p] = High(p)
            /\ duration_l[p] = Low(p)
            /\ (duty[p] = 0 => duration_h[p] = 0)
            /\ (duty[p] = 100 => duration_l[p] = 0)
            /\ (pc[p] = "done" /\ High(p) # 0 /\ Low(p) # 0) =>
                  /\ mem[PWM0_HDURATION + 64 * channel[p]] = High(p) - 1
                  /\ mem[PWM0_LDURATION + 64 * channel[p]] = Low(p) - 1
                  /\ mem[PWM0_GDURATION + 64 * channel[p]] = (High(p) + Low(p)) \div 2 - 1
                  /\ \E i, j, k \in Writes(p) :
                        /\ log[p][i] = Access(PWM0_HDURATION + 64 * channel[p], 1, High(p) - 1)
                        /\ log[p][j] = Access(PWM0_LDURATION + 64 * channel[p], 1, Low(p) - 1)
                        /\ log[p][k] = Access(PWM0_GDURATION + 64 * channel[p], 1,
                                              (High(p) + Low(p)) \div 2 - 1)

(* channel 1, 1000 Hz, duty 50: fast source / 1, registers 19999 *)
C2_Witness ==
    /\ pc[1] = "done"
    /\ channel[1] = 1 /\ freq[1] = 1000 /\ duty[1] = 50
    /\ mode[1] = 8
    /\ mem[PWM0_HDURATION + 64] = 19999
    /\ mem[PWM0_LDURATION + 64] = 19999
    /\ mem[PWM0_GDURATION + 64] = 19999

---------------------------------------------------------------------------
(* C3: when the frequency is 0 or the computed high or low duration is 0,  *)
(* the only register write of the invocation is the write of the enable    *)
(* register with the channel's bit cleared; no register of a channel block *)
(* is written, the channel's bit is 0 at the end and pwm() returns 0.      *)
C3_DisableOnly ==
    \A p \in AllProcs :
        Disabling(p) =>
            /\ \A i \in Writes(p) : IsClearWrite(p, i)
            /\ Cardinality(Writes(p)) <= 1
            /\ pc[p] = "done" =>
                  /\ Cardinality(Writes(p)) = 1
                  /\ Bit(mem[PWM_ENABLE], channel[p]) = 0
                  /\ ret[p] = 0
                  /\ stdout[p] = ""

(* a period too small to split (one count, duty 50), on a channel that was *)
(* enabled before                                                          *)
C3_Witness ==
    /\ pc[1] = "done"
    /\ freq[1] = 40000000 /\ duty[1] = 50
    /\ duration[1] = 1 /\ duration_h[1] = 0
    /\ Len(log[1]) = 2
    /\ Bit(log[1][1].value, channel[1]) = 1
    /\ Bit(mem[PWM_ENABLE], channel[1]) = 0

---------------------------------------------------------------------------
(* C4: on the enabling path the write that clears the channel's bit comes  *)
(* before every write to the channel's block, the write that sets the bit  *)
(* comes after all of them and is the last register write; the channel's   *)
(* bit is 0 at every write to the block and 1 at the end.                  *)
C4_DisableBeforeWrite ==
    \A p \in AllProcs :
        /\ \A i \in Writes(p) :
              IsBlockWrite(p, i) =>
                  /\ \E j \in 1..(i - 1) : IsClearWrite(p, j)
                  /\ \A j \in 1..(i - 1) : ~IsSetWrite(p, j)
        /\ (Enabling(p) /\ pc[p] # "done") => Bit(mem[PWM_ENABLE], channel[p]) = 0
        /\ (Enabling(p) /\ pc[p] = "done") =>
              /\ Len(log[p]) = 10
              /\ IsSetWrite(p, 10)
              /\ \A i \in 3..9 : IsBlockWrite(p, i)
              /\ {log[p][i].addr : i \in 3..9} = WrittenOf(channel[p])
              /\ Bit(mem[PWM_ENABLE], channel[p]) = 1

(* an enabling invocation on a channel that was enabled before *)
C4_Witness ==
    /\ pc[1] = "done"
    /\ Len(log[1]) = 10
    /\ Bit(log[1][1].value, channel[1]) = 1
    /\ Bit(log[1][2].value, channel[1]) = 0
    /\ Bit(mem[PWM_ENABLE], channel[1]) = 1

---------------------------------------------------------------------------
(* C5: the value written to enable the channel is the enable register as   *)
(* it is at that moment (read again after the block writes) with the       *)
(* channel's bit set, so a change another actor made to another bit since  *)
(* the disable write is kept.                                              *)
C5_EnableFromFreshRead ==
    [][\A p \in AllProcs :
          (pc[p] = "write_enable" /\ pc'[p] = "done")
          => mem'[PWM_ENABLE] = BitOr(mem[PWM_ENABLE], 2 ^ channel[p])]_vars

---------------------------------------------------------------------------
(* C6: running pwm(c, f, d) a second time with the same arguments leaves   *)
(* every register as the first run left it and returns the same result.    *)
C6_Idempotent ==
    (run = 2 /\ pc[1] = "done") =>
        /\ mem = first.mem
        /\ ret[1] = first.ret
        /\ stdout[1] = first.stdout

(* a second run that enables, and a second run that only disables, each on *)
(* registers the first run changed                                         *)
C6_Witness ==
    /\ run = 2 /\ pc[1] = "done"
    /\ first.mem # InitMem(5) /\ first.mem # InitMem(26)
    /\ Len(log[1]) \in {2, 10}

---------------------------------------------------------------------------
(* C7 as stated: some positive frequencies are too low even for the slow   *)
(* source / 128, and for those pwm() prints the out-of-range message,      *)
(* returns 1 and does not enable the channel.  The bound is monotone in    *)
(* the frequency, so 1 Hz, the lowest positive frequency, is one of them   *)
(* if any is.                                                              *)
C7_LowFrequencyOutOfRange ==
    \A p \in AllProcs :
        (pc[p] = "done" /\ freq[p] = 1) =>
            /\ ret[p] = 1
            /\ stdout[p] = OutOfRangeMsg
            /\ \A i \in Writes(p) : ~IsSetWrite(p, i)

(* C7 amended: every positive frequency is accepted by some candidate mode *)
(* (the slow source / 2 accepts 1 Hz, and so every frequency), so pwm()    *)
(* never reports out-of-range: it returns 0 and prints nothing.            *)
C7_NeverOutOfRange ==
    \A p \in AllProcs :
        /\ freq[p] > 0 => \E i \in 1..16 : CandidateFits(i, freq[p])
        /\ pc[p] = "done" => (ret[p] = 0 /\ stdout[p] = "")

(* 1 Hz: the slow source / 2 is selected and the channel is enabled *)
C7_Witness ==
    /\ pc[1] = "done"
    /\ freq[1] = 1 /\ duty[1] = 50
    /\ mode[1] = 1 /\ base_freq[1] = 50000
    /\ ret[1] = 0
    /\ Bit(mem[PWM_ENABLE], channel[1]) = 1

---------------------------------------------------------------------------
(* C8: in an invocation that enables a channel, the 32-bit high and low of *)
(* pwm() are at least 1 and below 0x10000, so the 16-bit parameters of     *)
(* pwm_raw() hold the same values; period*duty and period*(100-duty) stay  *)
(* below 2^32; and every value written to a duration register is at least  *)
(* 0 and fits in 16 bits.                                                  *)
C8_DurationsFit ==
    \A p \in AllProcs :
        Enabling(p) =>
            /\ duration_h[p] >= 1 /\ duration_h[p] < 65536
            /\ duration_l[p] >= 1 /\ duration_l[p] < 65536
            /\ raw_h[p] = duration_h[p]
            /\ raw_l[p] = duration_l[p]
            /\ duration[p] < 65535
            /\ Mul32(duration[p], duty[p]) = duration[p] * duty[p]
            /\ Mul32(duration[p], 100 - duty[p]) = duration[p] * (100 - duty[p])
            /\ \A i \in Writes(p) :
                  log[p][i].addr \in {r + 64 * channel[p] :
                                      r \in {PWM0_HDURATION, PWM0_LDURATION, PWM0_GDURATION}}
                  => (log[p][i].value >= 0 /\ log[p][i].value < 65536)

(* the smallest durations (a period of 2 counts, guard register 0) and the *)
(* largest (1 Hz at duty 99 on the slow source / 2)                        *)
C8_Witness ==
    /\ pc[1] = "done"
    /\ Len(log[1]) = 10
    /\ \/ (duration[1] = 2 /\ raw_h[1] = 1 /\ raw_l[1] = 1
           /\ mem[PWM0_GDURATION + 64 * channel[1]] = 0)
       \/ (duration[1] = 50000 /\ duty[1] = 99 /\ raw_h[1] = 49500)

---------------------------------------------------------------------------
(* C9: an invocation for channel c, alone, leaves every bit of the enable  *)
(* register other than bit c as it found it, at every write; it writes no  *)
(* register of another channel's block and no data-width, thresh or        *)
(* send-wavenum register.                                                  *)
C9_Frame ==
    \A p \in AllProcs :
        /\ Len(log[p]) >= 1 =>
              /\ log[p][1] = Access(PWM_ENABLE, 0, log[p][1].value)
              /\ OtherBits(mem[PWM_ENABLE], channel[p]) = OtherBits(log[p][1].value, channel[p])
              /\ \A i \in Writes(p) :
                    IsEnableWrite(p, i) =>
                        OtherBits(log[p][i].value, channel[p])
                            = OtherBits(log[p][1].value, channel[p])
        /\ \A i \in Writes(p) : IsEnableWrite(p, i) \/ IsBlockWrite(p, i)
        /\ \A a \in Regs \ ({PWM_ENABLE} \cup WrittenOf(channel[p])) : mem[a] = RegInit

(* an enabling invocation for channel 1 while channels 0 and 2 are enabled *)
C9_Witness ==
    /\ pc[1] = "done"
    /\ channel[1] = 1
    /\ Len(log[1]) = 10
    /\ log[1][1].value = 5
    /\ mem[PWM_ENABLE] = 7
    /\ mem[PWM0_CON + 64] # RegInit
    /\ mem[PWM0_CON] = RegInit

---------------------------------------------------------------------------
(* C10: when two invocations for different channels have both finished,    *)
(* each channel's bit of the enable register is what its own invocation    *)
(* asked for: set after an enabling call, cleared after a disabling one.   *)
C10_NoLostUpdate ==
    (channel[1] # channel[2] /\ \A p \in AllProcs : pc[p] = "done") =>
        \A p \in AllProcs :
            Bit(mem[PWM_ENABLE], channel[p]) = (IF Len(log[p]) > 2 THEN 1 ELSE 0)

=============================================================================
